---- MODULE Spec2Model ----
\* Model of calc_ipsae.py: the external-scorer sweep and result parsing of
\* calculate_ipsae, write_fasta, process_final_designs and main.
EXTENDS Integers, Sequences, FiniteSets, TLC

VARIABLES
    pc,                 \* position of the running program
    call,               \* arguments of the function under call (unit specifications)
    ret,                \* its return value
    args,               \* argparse namespace of main
    final_designs_dir,  \* directory handed to process_final_designs
    output_fasta,       \* output path handed to process_final_designs
    cif_files,          \* sorted(final_subdir.glob("*.cif"))
    filename_to_seq,    \* metrics rows, keyed by file_name
    idx,                \* index of the next cif file of the loop
    designs,            \* the designs list
    files,              \* output files: path -> content
    tree,               \* what the run found under final_designs_dir
    file_log            \* per structure file handled: what was found and done

vars == <<pc, call, ret, args, final_designs_dir, output_fasta, cif_files,
          filename_to_seq, idx, designs, files, tree, file_log>>

-----------------------------------------------------------------------------
\* Floats. Finite scores are counted in units of 1/10000; inf and nan are
\* the IEEE values float('inf') and NaN.

Num(v) == [k |-> "num", v |-> v]
Inf == [k |-> "inf", v |-> 0]
NaN == [k |-> "nan", v |-> 0]

\* a < b on floats: every comparison with NaN is false.
FloatLt(a, b) ==
    /\ a.k # "nan"
    /\ b.k # "nan"
    /\ \/ a.k = "num" /\ b.k = "inf"
       \/ a.k = "num" /\ b.k = "num" /\ a.v < b.v

\* The two ipSAE cell values of the tables: 2.0 and 5.0.
ScoreLow == Num(20000)
ScoreHigh == Num(50000)
IpsaeVals == {ScoreLow, ScoreHigh}

-----------------------------------------------------------------------------
\* calculate_ipsae: the interpreter x working-directory sweep.

PythonCmds == <<"python", "py">>
Workdirs == <<"/workdir", ".">>
Combos == {<<PythonCmds[p], Workdirs[w]>> : p \in 1..2, w \in 1..2}
RunOutcomes == {"zero", "nonzero", "raise"}

\* Inner loop over workdirs for one python_cmd, from workdir number w on.
\* sweep.script_exists[workdir] is ipsae_script.exists(); sweep.run[combo] is
\* what subprocess.run does for that command. log is the list of commands run.
RECURSIVE InnerLoop(_, _, _, _)
InnerLoop(sweep, python_cmd, w, log) ==
    IF w > Len(Workdirs) THEN [success |-> FALSE, log |-> log]
    ELSE LET workdir == Workdirs[w] IN
         IF ~sweep.script_exists[workdir]
         THEN InnerLoop(sweep, python_cmd, w + 1, log)
         ELSE LET command == <<python_cmd, workdir>>
                  ran == Append(log, command)
              IN  IF sweep.run[command] = "zero"
                  THEN [success |-> TRUE, log |-> ran]
                  ELSE InnerLoop(sweep, python_cmd, w + 1, ran)

\* Outer loop over python commands, from command number p on.
RECURSIVE OuterLoopNoBreak(_, _, _)
OuterLoopNoBreak(sweep, p, log) ==
    IF p > Len(PythonCmds) THEN [success |-> FALSE, log |-> log]
    ELSE LET r == InnerLoop(sweep, PythonCmds[p], 1, log)
             rest == OuterLoopNoBreak(sweep, p + 1, r.log)
         IN  [success |-> r.success \/ rest.success, log |-> rest.log]

RECURSIVE OuterLoop(_, _, _)
OuterLoop(sweep, p, log) ==
    IF p > Len(PythonCmds) THEN [success |-> FALSE, log |-> log]
    ELSE LET r == InnerLoop(sweep, PythonCmds[p], 1, log) IN
         IF r.success THEN r ELSE OuterLoop(sweep, p + 1, r.log)

-----------------------------------------------------------------------------
\* calculate_ipsae: reading the results table.

Chains == {"A", "B", "C"}
ExpectedColumns == {"Type", "Chn1", "Chn2", "ipSAE"}

\* f"{row['Chn1']}-{row['Chn2']}"
ChainPair(c1, c2) == <<c1, "-", c2>>

CommonPairs == <<ChainPair("A", "B"), ChainPair("B", "A"),
                 ChainPair("A", "C"), ChainPair("C", "A")>>

\* A Python dict as the list of its items in insertion order.
DictHas(d, key) == \E i \in 1..Len(d) : d[i].key = key
DictGet(d, key) == d[CHOOSE i \in 1..Len(d) : d[i].key = key].val
DictSet(d, key, val) ==
    IF DictHas(d, key)
    THEN [i \in 1..Len(d) |-> IF d[i].key = key THEN [key |-> key, val |-> val] ELSE d[i]]
    ELSE Append(d, [key |-> key, val |-> val])

\* Series.min() of the ipSAE column over a list of rows: NaN when empty.
RECURSIVE ColumnMin(_)
ColumnMin(rows) ==
    IF rows = <<>> THEN NaN
    ELSE LET rest == ColumnMin(Tail(rows))
             x == Head(rows).ipSAE
         IN  IF x.k = "nan" THEN rest
             ELSE IF rest.k = "nan" THEN x
             ELSE IF FloatLt(rest, x) THEN rest ELSE x

\* df[mask][...].min() for the pair of one max row.
PairMin(rows, row) ==
    ColumnMin(SelectSeq(rows, LAMBDA r : /\ r.Chn1 = row.Chn1
                                         /\ r.Chn2 = row.Chn2
                                         /\ r.Type # "max"))

\* The loop over df[df.Type == "max"].iterrows() building results.
RECURSIVE BuildResults(_, _, _)
BuildResults(rows, maxrows, results) ==
    IF maxrows = <<>> THEN results
    ELSE LET row == Head(maxrows) IN
         BuildResults(rows, Tail(maxrows),
                      DictSet(results, ChainPair(row.Chn1, row.Chn2), PairMin(rows, row)))

\* First of the common chain pairs in results, from number i on; 0 when none.
RECURSIVE FirstCommonLast(_, _)
FirstCommonLast(results, i) ==
    IF i > Len(CommonPairs) THEN 0
    ELSE LET later == FirstCommonLast(results, i + 1) IN
         IF later # 0 THEN later
         ELSE IF DictHas(results, CommonPairs[i]) THEN i ELSE 0

RECURSIVE FirstCommon(_, _)
FirstCommon(results, i) ==
    IF i > Len(CommonPairs) THEN 0
    ELSE IF DictHas(results, CommonPairs[i]) THEN i
    ELSE FirstCommon(results, i + 1)

Raised == [raised |-> TRUE, val |-> Inf]
Returned(v) == [raised |-> FALSE, val |-> v]

\* The body of the try block: what it returns, or that it raised.
ReadResults(table) ==
    IF ~table.readable THEN Raised                       \* pd.read_csv raises
    ELSE IF "Type" \notin table.columns THEN Raised      \* df.Type
    ELSE LET maxrows == SelectSeq(table.rows, LAMBDA r : r.Type = "max") IN
         IF maxrows # <<>> /\ ~({"Chn1", "Chn2"} \subseteq table.columns)
         THEN Raised                                     \* row['Chn1']
         ELSE LET results == BuildResults(table.rows, maxrows, <<>>)
                  c == FirstCommon(results, 1)
              IN  IF results = <<>> THEN Returned(Inf)
                  ELSE IF "ipSAE" \notin table.columns THEN Raised   \* ['min']['ipSAE']
                  ELSE IF c # 0 THEN Returned(DictGet(results, CommonPairs[c]))
                  ELSE Returned(results[1].val)

\* try: ... except Exception: return float('inf')
TryExceptNone(r) == r

TryExcept(r) == IF r.raised THEN Returned(Inf) ELSE r

\* calculate_ipsae(pae_file_path, structure_file_path, ...) in an environment
\* env = [sweep, table]: the return value, whether an exception left the
\* function, the commands run and whether the results file was read.
calculate_ipsae(env) ==
    LET s == OuterLoop(env.sweep, 1, <<>>) IN
    IF ~s.success
    THEN [val |-> Inf, raised |-> FALSE, invoked |-> s.log, read |-> FALSE]
    ELSE LET r == TryExcept(ReadResults(env.table)) IN
         [val |-> r.val, raised |-> r.raised, invoked |-> s.log, read |-> TRUE]

-----------------------------------------------------------------------------
\* Environments of one calculate_ipsae call.

MaxRows == 3

WorkdirSet == {Workdirs[w] : w \in 1..Len(Workdirs)}
AllSweeps == [script_exists : [WorkdirSet -> BOOLEAN], run : [Combos -> RunOutcomes]]

\* The scorer runs at the first attempt.
SweepOk == [script_exists |-> [d \in WorkdirSet |-> TRUE],
            run |-> [c \in Combos |-> "zero"]]

\* Rows of a results table: a max row or a per-direction (asym) row of a
\* pair of two different chains.
TablePairs == {<<c1, c2>> : c1, c2 \in Chains} \ {<<c, c>> : c \in Chains}
TableRow(type, pair, v) == [Type |-> type, Chn1 |-> pair[1], Chn2 |-> pair[2], ipSAE |-> v]
MaxTableRows == {TableRow("max", p, ScoreHigh) : p \in TablePairs}
AsymTableRows == {TableRow("asym", p, v) : p \in TablePairs, v \in IpsaeVals \cup {NaN}}
TableRows == MaxTableRows \cup AsymTableRows

RowLists(n) == UNION {[1..m -> TableRows] : m \in 0..n}

GoodTables == [readable : {TRUE}, columns : {ExpectedColumns}, rows : RowLists(MaxRows)]
Unreadable == [readable |-> FALSE, columns |-> {}, rows |-> <<>>]
LackingTables == [readable : {TRUE},
                  columns : {ExpectedColumns \ {c} : c \in ExpectedColumns},
                  rows : RowLists(1)]
AllTables == GoodTables \cup LackingTables \cup {Unreadable}

\* A table with one pair: max A-B and one asym A-B row of value v.
OnePairTable(v) ==
    [readable |-> TRUE, columns |-> ExpectedColumns,
     rows |-> <<[Type |-> "asym", Chn1 |-> "A", Chn2 |-> "B", ipSAE |-> v],
                [Type |-> "max", Chn1 |-> "A", Chn2 |-> "B", ipSAE |-> v]>>]

CalcEnvs ==
    {[sweep |-> s, table |-> OnePairTable(ScoreLow)] : s \in AllSweeps}
        \cup {[sweep |-> SweepOk, table |-> t] : t \in AllTables}

NoReturn == [val |-> Inf, raised |-> FALSE, invoked |-> <<>>, read |-> FALSE]

\* Variables of the program run, unused by the specifications of one call.
Idle ==
    /\ args = <<>>
    /\ final_designs_dir = <<>>
    /\ output_fasta = <<>>
    /\ cif_files = <<>>
    /\ filename_to_seq = <<>>
    /\ idx = 0
    /\ designs = <<>>
    /\ files = <<>>
    /\ tree = <<>>
    /\ file_log = <<>>

run_vars == <<args, final_designs_dir, output_fasta, cif_files, filename_to_seq,
              idx, designs, files, tree, file_log>>

InitCalc ==
    /\ pc = "call"
    /\ call \in CalcEnvs
    /\ ret = NoReturn
    /\ Idle

CallCalc ==
    /\ pc = "call"
    /\ ret' = calculate_ipsae(call)
    /\ pc' = "returned"
    /\ UNCHANGED <<call, run_vars>>

NextCalc == CallCalc

SpecCalc == InitCalc /\ [][NextCalc]_vars

-----------------------------------------------------------------------------
\* write_fasta.

LineWidth == 80

\* seq[i:j] of Python, i and j counted from 0.
Slice(seq, i, j) == SubSeq(seq, i + 1, IF j < Len(seq) THEN j ELSE Len(seq))

\* The four digits after the point of a score given in 1/10000.
Digits4(n) == <<n \div 1000, (n \div 100) % 10, (n \div 10) % 10, n % 10>>

\* f"{x:.4f}"
Format4f(x) ==
    IF x.k = "num"
    THEN [special |-> "", whole |-> x.v \div 10000, frac |-> Digits4(x.v % 10000)]
    ELSE [special |-> x.k, whole |-> 0, frac |-> <<>>]

\* f">{design['id']}|ipSAE={design['ipsae']:.4f}|rank={design['ipsae_rank']}"
HeaderLine(design) ==
    [header |-> TRUE, id |-> design.id, ipSAE |-> Format4f(design.ipsae),
     rank |-> design.ipsae_rank, text |-> <<>>]

SequenceLine(text) ==
    [header |-> FALSE, id |-> <<>>, ipSAE |-> Format4f(NaN), rank |-> 0, text |-> text]

\* for i in range(0, len(seq), 80): f.write(seq[i:i+80]), from offset i on.
RECURSIVE WrapLinesShort(_, _)
WrapLinesShort(seq, i) ==
    IF i >= Len(seq) THEN <<>>
    ELSE <<SequenceLine(Slice(seq, i, i + LineWidth - 1))>>
            \o WrapLinesShort(seq, i + LineWidth)

RECURSIVE WrapLines(_, _)
WrapLines(seq, i) ==
    IF i >= Len(seq) THEN <<>>
    ELSE <<SequenceLine(Slice(seq, i, i + LineWidth))>> \o WrapLines(seq, i + LineWidth)

\* The lines write_fasta writes for a list of designs.
RECURSIVE write_fasta(_)
write_fasta(ds) ==
    IF ds = <<>> THEN <<>>
    ELSE <<HeaderLine(Head(ds))>> \o WrapLines(Head(ds).sequence, 0)
            \o write_fasta(Tail(ds))

-----------------------------------------------------------------------------
\* designs.sort(key=lambda x: x['ipsae']): list.sort of CPython on a list
\* shorter than 64 items, which finds the leading run and then inserts the
\* remaining items by binary search, comparing keys with <.

KeyLt(a, b) == FloatLt(a.ipsae, b.ipsae)

\* count_run: last index of the run starting at index 1, given its direction.
RECURSIVE RunEnd(_, _, _)
RunEnd(lst, k, descending) ==
    IF k < Len(lst) /\ (KeyLt(lst[k + 1], lst[k]) <=> descending)
    THEN RunEnd(lst, k + 1, descending)
    ELSE k

Reverse(lst) == [i \in 1..Len(lst) |-> lst[Len(lst) + 1 - i]]

\* binarysort's search of the slot of pivot in lst[l..r-1].
RECURSIVE BinarySlot(_, _, _, _)
BinarySlot(lst, pivot, l, r) ==
    IF l >= r THEN l
    ELSE LET p == l + ((r - l) \div 2) IN
         IF KeyLt(pivot, lst[p])
         THEN BinarySlot(lst, pivot, l, p)
         ELSE BinarySlot(lst, pivot, p + 1, r)

\* binarysort: lst[1..start-1] is sorted; insert the items from start on.
RECURSIVE BinarySort(_, _)
BinarySort(lst, start) ==
    IF start > Len(lst) THEN lst
    ELSE LET pivot == lst[start]
             l == BinarySlot(lst, pivot, 1, start)
             moved == [i \in 1..Len(lst) |->
                          IF i < l \/ i > start THEN lst[i]
                          ELSE IF i = l THEN pivot
                          ELSE lst[i - 1]]
         IN  BinarySort(moved, start + 1)

ListSort(lst) ==
    IF Len(lst) < 2 THEN lst
    ELSE LET descending == KeyLt(lst[2], lst[1])
             n == RunEnd(lst, 2, descending)
             run == IF descending
                    THEN Reverse(SubSeq(lst, 1, n)) \o SubSeq(lst, n + 1, Len(lst))
                    ELSE lst
         IN  BinarySort(run, n + 1)

\* Ranks counted from 0.
AddRankFromZero(ds) == [i \in 1..Len(ds) |-> [ds[i] EXCEPT !.ipsae_rank = i - 1]]

\* for i, design in enumerate(designs): design['ipsae_rank'] = i + 1
AddRank(ds) == [i \in 1..Len(ds) |-> [ds[i] EXCEPT !.ipsae_rank = i]]

-----------------------------------------------------------------------------
\* Paths and file names, as lists of tokens.

None == <<>>

\* s.replace(old, new) where old is one token.
Replace(s, old, new) == [i \in 1..Len(s) |-> IF s[i] = old THEN new ELSE s[i]]

\* s.replace(old, ''): the token removed.
Remove(s, old) == SelectSeq(s, LAMBDA t : t # old)

\* Path(dir) / name
Join(dir, name) == dir \o <<"/">> \o name

\* cif_name.rsplit('_', 1) in place of split: everything after the last '_'.
OriginalNameAfterLast(cif_name) ==
    IF \E i \in 1..Len(cif_name) : cif_name[i] = "_"
    THEN LET last == CHOOSE i \in 1..Len(cif_name) :
                         /\ cif_name[i] = "_"
                         /\ \A j \in (i + 1)..Len(cif_name) : cif_name[j] # "_"
         IN  SubSeq(cif_name, last + 1, Len(cif_name))
    ELSE cif_name

\* cif_name.split('_', 1): everything after the first '_', or the whole name.
OriginalName(cif_name) ==
    IF \E i \in 1..Len(cif_name) : cif_name[i] = "_"
    THEN LET first == CHOOSE i \in 1..Len(cif_name) :
                          /\ cif_name[i] = "_"
                          /\ \A j \in 1..(i - 1) : cif_name[j] # "_"
         IN  SubSeq(cif_name, first + 1, Len(cif_name))
    ELSE cif_name

\* Path.stem: the name without its last suffix.
Stem(name) ==
    IF Len(name) > 1 /\ name[Len(name)] = ".cif" THEN SubSeq(name, 1, Len(name) - 1)
    ELSE name

\* dict.get(key, ""); the two dicts filename_to_seq and filename_to_chain_seq
\* are kept as one, keyed by file_name.
NotFound == [designed_sequence |-> <<>>, designed_chain_sequence |-> <<>>]
Lookup(d, key) == IF DictHas(d, key) THEN DictGet(d, key) ELSE NotFound

\* The loop over df_metrics.iterrows() filling the dicts.
RECURSIVE LoadMetrics(_, _)
LoadMetrics(rows, d) ==
    IF rows = <<>> THEN d
    ELSE LoadMetrics(Tail(rows),
                     DictSet(d, Head(rows).file_name,
                             [designed_sequence |-> Head(rows).designed_sequence,
                              designed_chain_sequence |-> Head(rows).designed_chain_sequence]))

DefaultDir == <<"test/final_ranked_designs">>
DefaultFastaName == <<"designs_ranked_by_ipsae", ".fasta">>
DefaultOutput == <<"test/final_ranked_designs", "/", "designs_ranked_by_ipsae", ".fasta">>
Candidates == <<<<"output/final_ranked_designs">>, <<"test/final_ranked_designs">>,
                <<"final_ranked_designs">>>>

\* First candidate directory that exists, or None.
RECURSIVE AutoDetect(_, _)
AutoDetect(existing, i) ==
    IF i > Len(Candidates) THEN None
    ELSE IF Candidates[i] \in existing THEN Candidates[i]
    ELSE AutoDetect(existing, i + 1)

\* summary_csv = str(output_fasta).replace('.fasta', '_summary.csv')
SummaryPath(fasta) == Replace(fasta, ".fasta", "_summary.csv")

\* parser.add_argument("--output", ..., default=...)
ParserDefaultOutput == DefaultOutput

\* if output_fasta is None: output_fasta = final_dir / "designs_ranked_by_ipsae.fasta"
OutputPath(final_dir, out) == IF out = None THEN Join(final_dir, DefaultFastaName) ELSE out

-----------------------------------------------------------------------------
\* Inputs of a run of the program.

MaxFiles == 3

\* Candidate structure file names, in sorted order.
CifNameList == <<<<"c", ".cif">>,
                 <<"rank00", "_", "a", ".cif">>,
                 <<"rank01", "_", "b", ".cif">>,
                 <<"rank02", "_", "d", "_", "v2", ".cif">>>>

\* The sorted listings of at most MaxFiles of them.
CifLists ==
    {SelectSeq(CifNameList, LAMBDA n : n \in chosen) :
        chosen \in {c \in SUBSET {CifNameList[i] : i \in 1..Len(CifNameList)} :
                       Cardinality(c) <= MaxFiles}}

MetricsRow(name, tag) ==
    [file_name |-> name, designed_sequence |-> <<"G", tag>>,
     designed_chain_sequence |-> <<"M", tag, "K">>]

\* Two metrics tables: one with a row for every design, one that misses b and
\* knows d_v2 only under its structure file name.
FullMetrics ==
    <<MetricsRow(<<"c", ".cif">>, "c"), MetricsRow(<<"a", ".cif">>, "a"),
      MetricsRow(<<"b", ".cif">>, "b"), MetricsRow(<<"d", "_", "v2", ".cif">>, "d")>>
PartMetrics ==
    <<MetricsRow(<<"c", ".cif">>, "c"), MetricsRow(<<"a", ".cif">>, "a"),
      MetricsRow(<<"rank02", "_", "d", "_", "v2", ".cif">>, "d")>>
MetricsTables == {FullMetrics, PartMetrics}

\* The metrics file found, by name, and its rows.
MetricsFound == {<<"final_designs_metrics", FullMetrics>>, <<"all_designs_metrics", PartMetrics>>}

\* What process_final_designs finds under final_designs_dir.
Trees ==
    {[dir |-> TRUE, subdir |-> TRUE, metrics |-> m[1], pae_dir |-> TRUE, cifs |-> c,
      rows |-> m[2]] : c \in CifLists, m \in MetricsFound}
    \cup [dir : {FALSE}, subdir : {FALSE}, metrics : {"none"}, pae_dir : {FALSE},
          cifs : {<<>>}, rows : {<<>>}]
    \cup [dir : {TRUE}, subdir : {FALSE}, metrics : {"all_designs_metrics"}, pae_dir : {FALSE},
          cifs : {<<>>}, rows : {<<>>}]
    \cup [dir : {TRUE}, subdir : {TRUE}, metrics : {"none"}, pae_dir : {TRUE},
          cifs : {<<CifNameList[1]>>}, rows : {<<>>}]
    \cup [dir : {TRUE}, subdir : {TRUE}, metrics : {"final_designs_metrics"}, pae_dir : {FALSE},
          cifs : {<<CifNameList[1]>>}, rows : MetricsTables]

\* Command lines of main: --final_designs_dir absent ("default"), given without
\* a value ("novalue") or with one; --output absent (None) or given.
Argvs ==
    {[dir |-> "default", dir_value |-> None, output |-> None],
     [dir |-> "novalue", dir_value |-> None, output |-> None],
     [dir |-> "given", dir_value |-> <<"output/final_ranked_designs">>, output |-> None],
     [dir |-> "given", dir_value |-> <<"output/final_ranked_designs">>,
      output |-> <<"my_ranked_designs", ".fasta">>]}

\* Which candidate directories exist when main looks for one.
ExistingDirs == {{}, {Candidates[1], Candidates[2]}, {Candidates[3]}}

\* Environments of the calculate_ipsae calls of a run.
SweepNoScript == [script_exists |-> [d \in WorkdirSet |-> FALSE],
                  run |-> [c \in Combos |-> "zero"]]
SweepAllFail == [script_exists |-> [d \in WorkdirSet |-> TRUE],
                 run |-> [c \in Combos |-> IF c[1] = "python" THEN "raise" ELSE "nonzero"]]
SweepLastOnly == [script_exists |-> [d \in WorkdirSet |-> TRUE],
                  run |-> [c \in Combos |-> IF c = <<"py", ".">> THEN "zero" ELSE "nonzero"]]
OnlyMaxTable ==
    [readable |-> TRUE, columns |-> ExpectedColumns,
     rows |-> <<TableRow("max", <<"A", "B">>, ScoreLow)>>]
NoMaxTable ==
    [readable |-> TRUE, columns |-> ExpectedColumns,
     rows |-> <<TableRow("asym", <<"A", "B">>, ScoreLow)>>]
Without(column) == [OnePairTable(ScoreLow) EXCEPT !.columns = ExpectedColumns \ {column}]

RunEnvs ==
    {[sweep |-> SweepNoScript, table |-> OnePairTable(ScoreLow)],
     [sweep |-> SweepAllFail, table |-> OnePairTable(ScoreLow)],
     [sweep |-> SweepOk, table |-> OnePairTable(ScoreLow)],
     [sweep |-> SweepLastOnly, table |-> OnePairTable(ScoreHigh)],
     [sweep |-> SweepOk, table |-> OnlyMaxTable],
     [sweep |-> SweepOk, table |-> Unreadable],
     [sweep |-> SweepOk, table |-> Without("ipSAE")],
     [sweep |-> SweepOk, table |-> Without("Type")],
     [sweep |-> SweepOk, table |-> NoMaxTable]}

-----------------------------------------------------------------------------
\* The program: main and process_final_designs.

NoTree == [dir |-> FALSE, subdir |-> FALSE, metrics |-> "none", pae_dir |-> FALSE,
           cifs |-> <<>>, rows |-> <<>>]

NoArgs == [via |-> "none", argv |-> [dir |-> "default", dir_value |-> None, output |-> None]]

Init ==
    /\ pc = "start"
    /\ call = <<>>
    /\ ret = NoReturn
    /\ args = NoArgs
    /\ final_designs_dir = None
    /\ output_fasta = None
    /\ cif_files = <<>>
    /\ filename_to_seq = <<>>
    /\ idx = 0
    /\ designs = <<>>
    /\ files = <<>>
    /\ tree = NoTree
    /\ file_log = <<>>

\* main(): parse the command line, auto-detect the directory when the option
\* was given without a value, and call process_final_designs.
Main ==
    /\ pc = "start"
    /\ \E argv \in Argvs, existing \in ExistingDirs :
          LET parsed_dir == IF argv.dir = "default" THEN DefaultDir
                            ELSE IF argv.dir = "novalue" THEN None
                            ELSE argv.dir_value
              parsed_output == IF argv.output = None THEN ParserDefaultOutput
                               ELSE argv.output
              dir == IF parsed_dir = None THEN AutoDetect(existing, 1) ELSE parsed_dir
          IN  /\ args' = [via |-> "main", argv |-> argv]
              /\ final_designs_dir' = dir
              /\ output_fasta' = parsed_output
              /\ pc' = IF dir = None THEN "exit1" ELSE "process"
    /\ UNCHANGED <<call, ret, cif_files, filename_to_seq, idx, designs, files, tree,
                   file_log>>

\* process_final_designs called as a function, output_fasta left at its default.
CallProcess ==
    /\ pc = "start"
    /\ args' = [via |-> "call", argv |-> NoArgs.argv]
    /\ final_designs_dir' = Candidates[3]
    /\ output_fasta' = None
    /\ pc' = "process"
    /\ UNCHANGED <<call, ret, cif_files, filename_to_seq, idx, designs, files, tree,
                   file_log>>

\* process_final_designs up to the loop: find the subdirectory, the metrics
\* table, the structure files and the pae directory.
Resolve ==
    /\ pc = "process"
    /\ \E found \in Trees :
        /\ tree' = found
        /\ IF ~found.dir
           THEN /\ pc' = "raised"            \* final_dir.iterdir() raises
                /\ UNCHANGED <<cif_files, filename_to_seq, idx>>
           ELSE IF ~found.subdir \/ found.metrics = "none" \/ ~found.pae_dir
           THEN /\ pc' = "exit1"
                /\ UNCHANGED <<cif_files, filename_to_seq, idx>>
           ELSE /\ pc' = "loop"
                /\ filename_to_seq' = LoadMetrics(found.rows, <<>>)
                /\ cif_files' = found.cifs
                /\ idx' = 1
    /\ UNCHANGED <<call, ret, args, final_designs_dir, output_fasta, designs,
                   files, file_log>>

Truthy(seq) == seq # <<>>

\* One entry of file_log; a file that is skipped has no call.
Skipped(cif_name, npz_exists) ==
    [cif |-> cif_name, npz_exists |-> npz_exists, called |-> FALSE,
     env |-> [sweep |-> SweepNoScript, table |-> Unreadable], ret |-> NoReturn]
Scored(cif_name, env, r) ==
    [cif |-> cif_name, npz_exists |-> TRUE, called |-> TRUE, env |-> env, ret |-> r]

\* One pass of the loop over cif_files.
ProcessFile ==
    /\ pc = "loop"
    /\ idx <= Len(cif_files)
    /\ \E npz_exists \in BOOLEAN, env \in RunEnvs :
          LET cif_name == cif_files[idx]
              original_name == OriginalName(cif_name)
              found == Lookup(filename_to_seq, original_name)
              sequence == found.designed_sequence
              chain_sequence == found.designed_chain_sequence
              r == calculate_ipsae(env)
          IN  IF ~npz_exists \/ (~Truthy(sequence) /\ ~Truthy(chain_sequence))
              THEN /\ pc' = "loop"
                   /\ file_log' = Append(file_log, Skipped(cif_name, npz_exists))
                   /\ UNCHANGED designs
              ELSE /\ file_log' = Append(file_log, Scored(cif_name, env, r))
                   /\ IF r.raised
                      THEN pc' = "raised" /\ UNCHANGED designs
                      ELSE /\ pc' = "loop"
                           /\ designs' = Append(designs,
                                  [id |-> Stem(cif_name),
                                   original_name |-> Remove(original_name, ".cif"),
                                   sequence |-> IF Truthy(chain_sequence)
                                                THEN chain_sequence ELSE sequence,
                                   designed_sequence |-> sequence,
                                   ipsae |-> r.val,
                                   cif_path |-> cif_name,
                                   ipsae_rank |-> 0])
    /\ idx' = idx + 1
    /\ UNCHANGED <<call, ret, args, final_designs_dir, output_fasta, cif_files,
                   filename_to_seq, files, tree>>

\* summary_df: one row per design.
SummaryRows(ds) ==
    [i \in 1..Len(ds) |->
        [ipsae_rank |-> ds[i].ipsae_rank, id |-> ds[i].id,
         original_name |-> ds[i].original_name, ipsae |-> ds[i].ipsae,
         designed_sequence |-> ds[i].designed_sequence,
         chain_sequence |-> ds[i].sequence]]

\* The two files written before the check for an empty list.
FinishWritesFirst ==
    /\ pc = "loop"
    /\ idx > Len(cif_files)
    /\ LET ranked == AddRank(ListSort(designs))
           out == OutputPath(final_designs_dir, output_fasta)
           fasta == [format |-> "fasta", lines |-> write_fasta(ranked)]
           csv == [format |-> "csv", lines |-> SummaryRows(ranked)]
       IN  /\ designs' = ranked
           /\ output_fasta' = out
           /\ files' = DictSet(DictSet(files, out, fasta), SummaryPath(out), csv)
           /\ pc' = IF designs = <<>> THEN "exit1" ELSE "done"
    /\ UNCHANGED <<call, ret, args, final_designs_dir, cif_files, filename_to_seq,
                   idx, tree, file_log>>

\* After the loop: exit when nothing was processed, else sort, rank and write
\* the two files.
Finish ==
    /\ pc = "loop"
    /\ idx > Len(cif_files)
    /\ IF designs = <<>>
       THEN /\ pc' = "exit1"
            /\ UNCHANGED <<designs, output_fasta, files>>
       ELSE LET ranked == AddRank(ListSort(designs))
                out == OutputPath(final_designs_dir, output_fasta)
                fasta == [format |-> "fasta", lines |-> write_fasta(ranked)]
                csv == [format |-> "csv", lines |-> SummaryRows(ranked)]
            IN  /\ designs' = ranked
                /\ output_fasta' = out
                /\ files' = DictSet(DictSet(files, out, fasta), SummaryPath(out), csv)
                /\ pc' = "done"
    /\ UNCHANGED <<call, ret, args, final_designs_dir, cif_files, filename_to_seq,
                   idx, tree, file_log>>

Next == Main \/ CallProcess \/ Resolve \/ ProcessFile \/ Finish

Spec == Init /\ [][Next]_vars

-----------------------------------------------------------------------------
\* One write_fasta call.

MaxSeqLen == 170

AminoAcids == <<"A", "C", "D", "E", "F", "G", "H", "I", "K", "L",
                "M", "N", "P", "Q", "R", "S", "T", "V", "W", "Y">>

\* A sequence of n residues whose windows differ from one another.
Residues(n) == [i \in 1..n |-> AminoAcids[((i * i + (i \div LineWidth)) % Len(AminoAcids)) + 1]]

FastaDesign(name, n, score, rank) ==
    [id |-> <<name>>, original_name |-> <<name>>, sequence |-> Residues(n),
     designed_sequence |-> Residues(n), ipsae |-> score, cif_path |-> <<name, ".cif">>,
     ipsae_rank |-> rank]

FastaScores == {Num(12345), Num(5), ScoreLow, Inf}

FastaInputs ==
    {<<FastaDesign("x", n, s, 1)>> : n \in 0..MaxSeqLen, s \in FastaScores}
        \cup {<<FastaDesign("x", n, ScoreLow, 1), FastaDesign("y", LineWidth + 5, s, 2)>> :
                n \in 0..MaxSeqLen, s \in FastaScores}

InitFasta ==
    /\ pc = "call"
    /\ call \in FastaInputs
    /\ ret = <<>>
    /\ Idle

CallWriteFasta ==
    /\ pc = "call"
    /\ ret' = write_fasta(call)
    /\ pc' = "returned"
    /\ UNCHANGED <<call, run_vars>>

NextFasta == CallWriteFasta

SpecFasta == InitFasta /\ [][NextFasta]_vars

-----------------------------------------------------------------------------
\* Properties of one calculate_ipsae call (SpecCalc).

\* The candidate invocations in the order of the sweep.
SweepOrder == <<<<"python", "/workdir">>, <<"python", ".">>,
                <<"py", "/workdir">>, <<"py", ".">>>>

\* Candidate k has a script to run.
HasScript(k) == call.sweep.script_exists[SweepOrder[k][2]]

\* Candidate k, when run, exits with status zero.
ExitsZero(k) == HasScript(k) /\ call.sweep.run[SweepOrder[k]] = "zero"

\* Number of the first candidate that succeeds; one past the last when none does.
FirstZero ==
    IF \E k \in 1..Len(SweepOrder) : ExitsZero(k)
    THEN CHOOSE k \in 1..Len(SweepOrder) :
            ExitsZero(k) /\ \A j \in 1..(k - 1) : ~ExitsZero(j)
    ELSE Len(SweepOrder) + 1

\* C1: the invocations run are, in the fixed order python+/workdir, python+.,
\* py+/workdir, py+., exactly the candidates (with a script) up to and including
\* the first one that exits zero: nothing runs after it, and a candidate that
\* exits non-zero or raises does not stop the later ones from running.
C1_SweepInOrderUntilFirstZero ==
    pc = "returned" =>
        /\ ret.invoked =
              SelectSeq(SubSeq(SweepOrder, 1, IF FirstZero > Len(SweepOrder)
                                              THEN Len(SweepOrder) ELSE FirstZero),
                        LAMBDA c : call.sweep.script_exists[c[2]])
        /\ ret.read <=> FirstZero <= Len(SweepOrder)

\* Two failures (one non-zero exit, one exception), then success at the third
\* candidate while a fourth was still available.
C1_Witness ==
    /\ pc = "returned"
    /\ ret.invoked = SubSeq(SweepOrder, 1, 3)
    /\ call.sweep.run[SweepOrder[1]] = "nonzero"
    /\ call.sweep.run[SweepOrder[2]] = "raise"
    /\ call.sweep.run[SweepOrder[4]] = "zero"
    /\ ret.read

\* The table of the call, its max rows and the pairs they name.
MaxRowIndexes ==
    {i \in 1..Len(call.table.rows) : call.table.rows[i].Type = "max"}
PairOfRow(i) == <<call.table.rows[i].Chn1, call.table.rows[i].Chn2>>
MaxPairs == {PairOfRow(i) : i \in MaxRowIndexes}

\* Least ipSAE among the non-max rows of a pair (NaN cells skipped); NaN when
\* there is none.
MinOfPair(pair) ==
    LET vals == {call.table.rows[i].ipSAE :
                    i \in {j \in 1..Len(call.table.rows) :
                              /\ j \notin MaxRowIndexes
                              /\ PairOfRow(j) = pair
                              /\ call.table.rows[j].ipSAE.k = "num"}}
    IN  IF vals = {} THEN NaN
        ELSE CHOOSE x \in vals : \A y \in vals : x.v <= y.v

PriorityOrder == <<<<"A", "B">>, <<"B", "A">>, <<"A", "C">>, <<"C", "A">>>>

WellFormedTable == call.table.readable /\ call.table.columns = ExpectedColumns

\* C3: on a well-formed table with a max row, the score is the min ipSAE of the
\* first of A-B, B-A, A-C, C-A among the pairs of the max rows, and without any
\* of them the min ipSAE of the pair of the first max row of the table.
C3_ScoreByPriorityThenFirstPair ==
    (pc = "returned" /\ ret.read /\ WellFormedTable /\ MaxRowIndexes # {}) =>
        IF \E k \in 1..Len(PriorityOrder) : PriorityOrder[k] \in MaxPairs
        THEN LET k == CHOOSE n \in 1..Len(PriorityOrder) :
                          /\ PriorityOrder[n] \in MaxPairs
                          /\ \A m \in 1..(n - 1) : PriorityOrder[m] \notin MaxPairs
             IN  ret.val = MinOfPair(PriorityOrder[k])
        ELSE LET i == CHOOSE n \in MaxRowIndexes : \A m \in MaxRowIndexes : n <= m
             IN  ret.val = MinOfPair(PairOfRow(i))

\* A-B and C-A both present, C-A first in the table and with another minimum:
\* the score is A-B's.
C3_Witness ==
    /\ pc = "returned"
    /\ ret.read
    /\ WellFormedTable
    /\ Len(call.table.rows) = 3
    /\ call.table.rows[1].Type = "max" /\ PairOfRow(1) = <<"C", "A">>
    /\ <<"A", "B">> \in MaxPairs
    /\ MinOfPair(<<"A", "B">>) = ScoreLow
    /\ MinOfPair(<<"C", "A">>) # ScoreLow
    /\ ret.val = ScoreLow

-----------------------------------------------------------------------------
\* Properties of a run of the program (Spec).

LogIndexes == 1..Len(file_log)
DesignIndexes == 1..Len(designs)

\* The design made from a structure file, if any.
HasDesign(cif) == \E i \in DesignIndexes : designs[i].cif_path = cif
DesignOf(cif) == designs[CHOOSE i \in DesignIndexes : designs[i].cif_path = cif]

\* The two files of a finished run.
FastaFiles == {i \in 1..Len(files) : files[i].val.format = "fasta"}
CsvFiles == {i \in 1..Len(files) : files[i].val.format = "csv"}
FastaHeaders ==
    SelectSeq(files[CHOOSE i \in FastaFiles : TRUE].val.lines, LAMBDA line : line.header)
CsvRows == files[CHOOSE i \in CsvFiles : TRUE].val.lines

\* No interpreter/working-directory combination runs the scorer to exit zero.
NoComboSucceeds(sweep) ==
    \A c \in Combos : ~(sweep.script_exists[c[2]] /\ sweep.run[c] = "zero")

\* C2: a design for which no combination succeeds gets +infinity without an
\* exception and without a read of a results file, the run goes on, the design
\* is in the ranked list with score +infinity, and it is ranked after every
\* design with a finite score.
C2_FailedSweepScoresInfAndRanksLast ==
    \A k \in LogIndexes :
        (file_log[k].called /\ NoComboSucceeds(file_log[k].env.sweep)) =>
            /\ file_log[k].ret.val = Inf
            /\ ~file_log[k].ret.raised
            /\ ~file_log[k].ret.read
            /\ pc \in {"loop", "done"}
            /\ HasDesign(file_log[k].cif)
            /\ DesignOf(file_log[k].cif).ipsae = Inf
            /\ pc = "done" =>
                  \A j \in DesignIndexes :
                      designs[j].ipsae.k = "num" =>
                          designs[j].ipsae_rank < DesignOf(file_log[k].cif).ipsae_rank

\* The results file of a call is unreadable, lacks a column or has no max row.
BadTable(table) ==
    \/ ~table.readable
    \/ table.columns # ExpectedColumns
    \/ \A i \in 1..Len(table.rows) : table.rows[i].Type # "max"

\* C4: after a successful invocation, an unreadable results file, one that
\* lacks a column or one without a max row gives +infinity and no exception;
\* the design is kept with that score and the loop goes on to the next file.
C4_BadTableScoresInfAndRunGoesOn ==
    \A k \in LogIndexes :
        (file_log[k].called /\ file_log[k].ret.read /\ BadTable(file_log[k].env.table)) =>
            /\ file_log[k].ret.val = Inf
            /\ ~file_log[k].ret.raised
            /\ pc \in {"loop", "done"}
            /\ idx > k
            /\ HasDesign(file_log[k].cif)
            /\ DesignOf(file_log[k].cif).ipsae = Inf

\* A table without its ipSAE column for the first file, and the second file
\* scored after it.
C4_Witness ==
    /\ Len(file_log) >= 2
    /\ file_log[1].called /\ file_log[1].ret.read
    /\ "ipSAE" \notin file_log[1].env.table.columns
    /\ file_log[1].ret.val = Inf
    /\ file_log[2].called
    /\ file_log[2].ret.val = ScoreLow

\* Position of a structure file in the sorted listing.
ListingIndex(cif) == CHOOSE i \in 1..Len(cif_files) : cif_files[i] = cif

\* C5: the ranked order is the stable ascending sort by score: a smaller score
\* has the smaller rank, and of two equal scores the design processed earlier has
\* the smaller rank.
C5_RankedStableAscending ==
    pc = "done" =>
        \A i, j \in DesignIndexes :
            /\ FloatLt(designs[i].ipsae, designs[j].ipsae) =>
                  designs[i].ipsae_rank < designs[j].ipsae_rank
            /\ (/\ designs[i].ipsae = designs[j].ipsae
                /\ designs[i].ipsae.k # "nan"
                /\ ListingIndex(designs[i].cif_path) < ListingIndex(designs[j].cif_path)) =>
                  designs[i].ipsae_rank < designs[j].ipsae_rank

\* C6: a finished run with N designs has N >= 1, ranks exactly 1..N, rank i at
\* sorted position i, the N designs being those that were scored, and the
\* sequence file and the summary table list these N designs in rank order.
C6_RanksOneToNAndBothFilesInRankOrder ==
    pc = "done" =>
        LET n == Len(designs) IN
        /\ n >= 1
        /\ n = Cardinality({k \in LogIndexes : file_log[k].called})
        /\ \A k \in LogIndexes : file_log[k].called => HasDesign(file_log[k].cif)
        /\ {designs[i].ipsae_rank : i \in DesignIndexes} = 1..n
        /\ \A i \in DesignIndexes : designs[i].ipsae_rank = i
        /\ Cardinality(FastaFiles) = 1 /\ Cardinality(CsvFiles) = 1
        /\ Len(FastaHeaders) = n
        /\ \A i \in DesignIndexes :
              FastaHeaders[i].id = designs[i].id /\ FastaHeaders[i].rank = i
        /\ Len(CsvRows) = n
        /\ \A i \in DesignIndexes :
              CsvRows[i].id = designs[i].id /\ CsvRows[i].ipsae_rank = i

\* Three designs, the first two with the same score.
C6_Witness ==
    /\ pc = "done"
    /\ Len(designs) = 3
    /\ designs[1].ipsae = designs[2].ipsae
    /\ Len(FastaHeaders) = 3

\* The original name of each candidate structure file: its name after the
\* rank prefix and the first '_'.
ExpectedOriginal(cif) ==
    CASE cif = <<"c", ".cif">> -> <<"c", ".cif">>
      [] cif = <<"rank00", "_", "a", ".cif">> -> <<"a", ".cif">>
      [] cif = <<"rank01", "_", "b", ".cif">> -> <<"b", ".cif">>
      [] cif = <<"rank02", "_", "d", "_", "v2", ".cif">> -> <<"d", "_", "v2", ".cif">>

InMetrics(name) == \E i \in 1..Len(tree.rows) : tree.rows[i].file_name = name

\* The file lacks its pae file or its sequence.
MustSkip(entry) == ~entry.npz_exists \/ ~InMetrics(ExpectedOriginal(entry.cif))

\* The run got as far as the loop over the structure files.
ReachedLoop == tree.dir /\ tree.subdir /\ tree.metrics # "none" /\ tree.pae_dir

\* Three files, the second without its pae file, the others scored 5.0 and 2.0.
ThreeFilesOneSkipped ==
    /\ pc = "done"
    /\ Len(file_log) = 3
    /\ file_log[1].called /\ file_log[1].ret.val = ScoreHigh
    /\ ~file_log[2].npz_exists
    /\ file_log[3].called /\ file_log[3].ret.val = ScoreLow

\* C7: a structure file without its pae file or without a metrics row under its
\* original name is skipped: no scorer call, no design, no rank, in neither
\* output; every other file is still handled and scored. With three files, one
\* lacking its pae file and the others scoring 5.0 and 2.0, there are two
\* headers: rank 1 with 2.0 and rank 2 with 5.0.
C7_SkippedFilesLeaveTheRestRanked ==
    /\ \A k \in LogIndexes :
          /\ file_log[k].cif = cif_files[k]
          /\ IF MustSkip(file_log[k])
             THEN /\ ~file_log[k].called
                  /\ file_log[k].ret.invoked = <<>>
                  /\ ~HasDesign(file_log[k].cif)
             ELSE file_log[k].called
    /\ (pc \in {"done", "exit1"} /\ ReachedLoop) => Len(file_log) = Len(cif_files)
    /\ pc = "done" =>
          /\ \A i \in 1..Len(FastaHeaders) :
                \E k \in LogIndexes :
                    ~MustSkip(file_log[k]) /\ DesignOf(file_log[k].cif).id = FastaHeaders[i].id
          /\ \A i \in 1..Len(CsvRows) :
                \E k \in LogIndexes :
                    ~MustSkip(file_log[k]) /\ DesignOf(file_log[k].cif).id = CsvRows[i].id
    /\ ThreeFilesOneSkipped =>
          /\ Len(FastaHeaders) = 2
          /\ FastaHeaders[1].rank = 1 /\ FastaHeaders[1].ipSAE = Format4f(ScoreLow)
          /\ FastaHeaders[2].rank = 2 /\ FastaHeaders[2].ipSAE = Format4f(ScoreHigh)

C7_Witness == ThreeFilesOneSkipped /\ Len(designs) = 2

\* C8: a missing subdirectory or metrics table, no structure file or no
\* surviving design ends the run with a non-zero exit and nothing written; a run
\* with a surviving design does not exit non-zero.
C8_FatalExitsBeforeAnyWrite ==
    /\ pc = "exit1" => (files = <<>> /\ designs = <<>>)
    /\ (pc \notin {"start", "process"} /\ tree.dir /\ (~tree.subdir \/ tree.metrics = "none"))
          => pc = "exit1"
    /\ (ReachedLoop /\ tree.cifs = <<>>) => (pc \in {"loop", "exit1"} /\ files = <<>>)
    /\ (pc = "loop" /\ designs = <<>>) => files = <<>>
    /\ pc = "done" => \E k \in LogIndexes : file_log[k].called
    /\ (pc \in {"done", "exit1"} /\ \E k \in LogIndexes : file_log[k].called) => pc = "done"

\* A run of three files, all skipped, that ended with a non-zero exit.
C8_Witness ==
    /\ pc = "exit1"
    /\ ReachedLoop
    /\ Len(file_log) = 3
    /\ \A k \in LogIndexes : ~file_log[k].called
    /\ files = <<>>

\* C9: without --output on the command line, the sequence file is written to
\* the results directory of the run, joined with designs_ranked_by_ipsae.fasta,
\* whatever that directory is, and the summary table beside it.
C9_DefaultOutputInResultsDirectory ==
    (pc = "done" /\ args.via = "main" /\ args.argv.output = None) =>
        /\ DictHas(files, Join(final_designs_dir, <<"designs_ranked_by_ipsae", ".fasta">>))
        /\ DictGet(files, Join(final_designs_dir,
                               <<"designs_ranked_by_ipsae", ".fasta">>)).format = "fasta"
        /\ DictHas(files, Join(final_designs_dir,
                               <<"designs_ranked_by_ipsae", "_summary.csv">>))

-----------------------------------------------------------------------------
\* Properties of one write_fasta call (SpecFasta).

\* ceil(n / 80)
LinesFor(n) == CHOOSE k \in 0..n : LineWidth * k >= n /\ (k = 0 \/ LineWidth * (k - 1) < n)

\* Line number of the header of design j of the call.
RECURSIVE HeaderAt(_)
HeaderAt(j) == IF j = 1 THEN 1 ELSE HeaderAt(j - 1) + 1 + LinesFor(Len(call[j - 1].sequence))

\* The text of a score has four decimals.
FourDecimals(text, score) ==
    IF score.k = "num"
    THEN /\ text.special = ""
         /\ Len(text.frac) = 4
         /\ \A d \in 1..4 : text.frac[d] \in 0..9
         /\ text.whole * 10000 + text.frac[1] * 1000 + text.frac[2] * 100
                + text.frac[3] * 10 + text.frac[4] = score.v
    ELSE text.special = score.k

\* C10: for each design in the order given, a header of id, score to four
\* decimals and rank, then ceil(L/80) sequence lines, all of 80 characters but
\* the last, which holds the remaining L - 80*(ceil(L/80)-1), and which read in
\* order give the sequence.
C10_HeaderThenSequenceWrappedAt80 ==
    pc = "returned" =>
        /\ Len(ret) = HeaderAt(Len(call) + 1) - 1
        /\ \A j \in 1..Len(call) :
              LET seq == call[j].sequence
                  n == LinesFor(Len(seq))
                  h == HeaderAt(j)
              IN  /\ ret[h].header
                  /\ ret[h].id = call[j].id
                  /\ ret[h].rank = call[j].ipsae_rank
                  /\ FourDecimals(ret[h].ipSAE, call[j].ipsae)
                  /\ \A k \in 1..n :
                        /\ ~ret[h + k].header
                        /\ Len(ret[h + k].text) =
                              IF k < n THEN LineWidth ELSE Len(seq) - LineWidth * (n - 1)
                  /\ \A q \in 1..Len(seq) :
                        ret[h + 1 + ((q - 1) \div LineWidth)].text[((q - 1) % LineWidth) + 1]
                            = seq[q]

\* A sequence of 170 residues written as lines of 80, 80 and 10.
C10_Witness ==
    /\ pc = "returned"
    /\ Len(call[1].sequence) = 170
    /\ Len(ret) >= 4
    /\ ret[1].header
    /\ Len(ret[2].text) = 80 /\ Len(ret[3].text) = 80 /\ Len(ret[4].text) = 10

====
